---- MODULE Spec2Model ----
(***************************************************************************)
(* Model of the aggregation / ranking core of the TP1 program:             *)
(*   src/src/structs.rs     data model and the merge (Add / reduce)         *)
(*   src/src/processors.rs  line reducer, file fan-out, ranking pass        *)
(*   src/src/main.rs        the run: list files, collect, rank, print       *)
(*                                                                         *)
(* Names (site names, tag names) are modelled as positive naturals whose   *)
(* order stands for the byte-wise order of the Rust Strings; 0 stands for  *)
(* the empty String.  A text is a tuple of characters.  Counters are u32   *)
(* in the source; the sums of the model stay far below 2^32, so plain      *)
(* addition is used.                                                       *)
(*                                                                         *)
(* Specifications:                                                         *)
(*   Spec       the whole run, each closure of a worker one step           *)
(*   SpecRank   the ranking pass on Reports of more than 10 names          *)
(*   SpecTasks  the whole run, each closure of a worker two steps          *)
(*   SpecFair   the whole run under fair scheduling, with entries whose    *)
(*              every read fails                                           *)
(***************************************************************************)
EXTENDS Integers, Sequences, FiniteSets, Bags

VARIABLES
    pc,               \* phase of main: Idle, Collecting, Ranking, Done, Aborted
    paths,            \* list_files' result: one site name per file, in listing order
    fstate,           \* per file: pending, open, readerr, skipped, eof, done, failed
    lines,            \* per file: the items reader.lines() has yielded so far
    pool,             \* per file: bag of partial ResultData inside the parallel reduce
    results_per_file, \* process_files' collected per-file results (files done so far)
    combined_result,  \* <<>> or <<r>>: process_files' accumulator / main's result_data
    folded,           \* number of per-file results already folded into combined_result
    top_sites,        \* site -> coefficient, for the sites whose ranking task has run
    rstep,            \* position inside process_totals: sites, tags, print
    output,           \* <<>> or <<r>>: the Report printed by main
    merging,          \* bag of <<file, acc, b>>: calls of the reduce closure under way
    site_writers      \* bag of sites: par_iter_mut closures holding the site's &mut SiteData

vars == << pc, paths, fstate, lines, pool, results_per_file, combined_result,
           folded, top_sites, rstep, output, merging, site_writers >>

----------------------------------------------------------------------------
(* Program constants *)

CHATTY_TAGS_MAX == 10

CHATTY_SITES_MAX == 10

QUESTIONS_PER_LINE == 1

PADRON == 107587

(* Bounds and input universes *)

\* total number of lines the readers yield in one run
MaxLines == 3

\* largest key set whose every iteration order is explored
MaxPermSize == 3

\* total number of lines the readers yield in one run of SpecTasks and SpecFair
MaxTaskLines == 2

\* largest number of names in the corpora of the ranking specification
MaxRankNames == 11

SiteNames == {1, 2}

TagNames == {1, 2}

EmptyName == 0

\* the directory listings explored: one site name per file
PathLists == { <<>>, <<1, 2>>, <<2, 2>> }

\* texts of 0, 1 and 3 whitespace-separated words
NoTexts == <<>>

OneWord == << <<"a">> >>

ThreeWords == << <<"a", " ", "b">>, <<" ", "c", " ">> >>

\* what one step of reader.lines() followed by from_str can meet
Malformed == [kind |-> "malformed", texts |-> <<>>, tags |-> <<>>]

ReadError == [kind |-> "ioerr", texts |-> <<>>, tags |-> <<>>]

\* the well-formed records explored: no tag, one tag, two tags, a repeated tag
Records ==
    { [kind |-> "ok", texts |-> NoTexts, tags |-> <<>>],
      [kind |-> "ok", texts |-> OneWord, tags |-> <<1>>],
      [kind |-> "ok", texts |-> ThreeWords, tags |-> <<2, 1>>],
      [kind |-> "ok", texts |-> ThreeWords, tags |-> <<2, 2>>] }

LineItems == Records \cup {Malformed, ReadError}

----------------------------------------------------------------------------
(* structs.rs: the data model *)

EmptyMap == [k \in {} |-> 0]

Range(s) == { s[i] : i \in DOMAIN s }

\* faulty variant: the Counter starts from the default and only words is set
TagData_new_no_questions(questions, words) == [questions |-> 0, words |-> words]

TagData_new(questions, words) == [questions |-> questions, words |-> words]

SiteData_new(questions, words, tags) ==
    [questions |-> questions, words |-> words, tags |-> tags,
     chatty_tags |-> [i \in 1..CHATTY_TAGS_MAX |-> EmptyName]]

\* faulty variant: the totals start padded, as the chatty_tags of a SiteData do
ResultData_new_padded_totals(padron, sites, tags) ==
    [padron |-> padron, sites |-> sites, tags |-> tags,
     totals |-> [chatty_sites |-> [i \in 1..CHATTY_SITES_MAX |-> EmptyName],
                 chatty_tags |-> [i \in 1..CHATTY_TAGS_MAX |-> EmptyName]]]

ResultData_new(padron, sites, tags) ==
    [padron |-> padron, sites |-> sites, tags |-> tags,
     totals |-> [chatty_sites |-> <<>>, chatty_tags |-> <<>>]]

\* HashMap::insert: an existing key is overwritten
MapInsert(m, k, v) == [x \in (DOMAIN m) \cup {k} |-> IF x = k THEN v ELSE m[x]]

\* faulty variant: the occupied entry is replaced instead of combined
TagData_combine_overwrite(self, other) == other

TagData_combine(self, other) ==
    [questions |-> self.questions + other.questions,
     words |-> self.words + other.words]

\* faulty variant: only vacant keys are taken from origen, occupied ones are left alone
reduce_tags_vacant_only(destino, origen) ==
    [k \in (DOMAIN destino) \cup (DOMAIN origen) |->
        IF k \in DOMAIN destino THEN destino[k] ELSE origen[k]]

\* reduce::<TagData>: fold the entries of origen into destino
reduce_tags(destino, origen) ==
    [k \in (DOMAIN destino) \cup (DOMAIN origen) |->
        IF k \in DOMAIN destino
        THEN IF k \in DOMAIN origen
             THEN TagData_combine(destino[k], origen[k])
             ELSE destino[k]
        ELSE origen[k]]

\* faulty variant: an occupied site entry keeps its own question count
SiteData_combine_keep_questions(self, other) ==
    [questions |-> self.questions,
     words |-> self.words + other.words,
     tags |-> reduce_tags(self.tags, other.tags),
     chatty_tags |-> self.chatty_tags]

\* faulty variant: the tag maps of an occupied site entry are not reduced
SiteData_combine_no_tags(self, other) ==
    [questions |-> self.questions + other.questions,
     words |-> self.words + other.words,
     tags |-> self.tags,
     chatty_tags |-> self.chatty_tags]

\* faulty variant: an occupied site entry keeps its own word count
SiteData_combine_keep_words(self, other) ==
    [questions |-> self.questions + other.questions,
     words |-> self.words,
     tags |-> reduce_tags(self.tags, other.tags),
     chatty_tags |-> self.chatty_tags]

\* faulty variant: the chatty_tags of the two entries are concatenated
SiteData_combine_concat_chatty(self, other) ==
    [questions |-> self.questions + other.questions,
     words |-> self.words + other.words,
     tags |-> reduce_tags(self.tags, other.tags),
     chatty_tags |-> self.chatty_tags \o other.chatty_tags]

SiteData_combine(self, other) ==
    [questions |-> self.questions + other.questions,
     words |-> self.words + other.words,
     tags |-> reduce_tags(self.tags, other.tags),
     chatty_tags |-> self.chatty_tags]

\* faulty variant: an entry of origen with a key vacant in destino is dropped
reduce_sites_occupied_only(destino, origen) ==
    [k \in DOMAIN destino |->
        IF k \in DOMAIN origen
        THEN SiteData_combine(destino[k], origen[k])
        ELSE destino[k]]

\* reduce::<SiteData>
reduce_sites(destino, origen) ==
    [k \in (DOMAIN destino) \cup (DOMAIN origen) |->
        IF k \in DOMAIN destino
        THEN IF k \in DOMAIN origen
             THEN SiteData_combine(destino[k], origen[k])
             ELSE destino[k]
        ELSE origen[k]]

\* faulty variant: the global tag maps are not reduced
Add_keep_own_tags(self, other) ==
    [padron |-> self.padron,
     sites |-> reduce_sites(self.sites, other.sites),
     tags |-> self.tags,
     totals |-> self.totals]

\* impl Add for ResultData: self + other
Add(self, other) ==
    [padron |-> self.padron,
     sites |-> reduce_sites(self.sites, other.sites),
     tags |-> reduce_tags(self.tags, other.tags),
     totals |-> self.totals]

TagData_get_coef(self) == self.words \div self.questions

SiteData_get_coef(self) == self.words \div self.questions

----------------------------------------------------------------------------
(* processors.rs: the line reducer *)

\* text.split_whitespace().count(): the number of maximal runs of non-blanks
split_whitespace_count(text) ==
    Cardinality({ i \in DOMAIN text :
                    /\ text[i] # " "
                    /\ (i = 1 \/ text[i - 1] = " ") })

RECURSIVE word_counter(_)
word_counter(texts) ==
    IF texts = <<>> THEN 0
    ELSE split_whitespace_count(Head(texts)) + word_counter(Tail(texts))

\* faulty variant: a tag already in the map is incremented instead of overwritten
RECURSIVE tags_of_line_per_entry(_, _, _)
tags_of_line_per_entry(tags, list, words_count) ==
    IF list = <<>> THEN tags
    ELSE tags_of_line_per_entry(
            IF Head(list) \in DOMAIN tags
            THEN [tags EXCEPT ![Head(list)] =
                     TagData_combine(@, TagData_new(QUESTIONS_PER_LINE, words_count))]
            ELSE MapInsert(tags, Head(list), TagData_new(QUESTIONS_PER_LINE, words_count)),
            Tail(list), words_count)

\* the loop "for tag in &json_struct.tags { tags.insert(tag, TagData::new(..)) }"
RECURSIVE tags_of_line(_, _, _)
tags_of_line(tags, list, words_count) ==
    IF list = <<>> THEN tags
    ELSE tags_of_line(MapInsert(tags, Head(list),
                                TagData_new(QUESTIONS_PER_LINE, words_count)),
                      Tail(list), words_count)

\* faulty variant: the tags of the record are left out of the global tag map
generate_result_data_from_line_site_only(line_struct, site) ==
    LET words_count == word_counter(line_struct.texts)
        tags == tags_of_line(EmptyMap, line_struct.tags, words_count)
        site_data == SiteData_new(QUESTIONS_PER_LINE, words_count, tags)
        site_subhash == MapInsert(EmptyMap, site, site_data)
    IN  ResultData_new(PADRON, site_subhash, EmptyMap)

generate_result_data_from_line(line_struct, site) ==
    LET words_count == word_counter(line_struct.texts)
        tags == tags_of_line(EmptyMap, line_struct.tags, words_count)
        site_data == SiteData_new(QUESTIONS_PER_LINE, words_count, tags)
        site_subhash == MapInsert(EmptyMap, site, site_data)
    IN  ResultData_new(PADRON, site_subhash, site_data.tags)

Identity == ResultData_new(PADRON, EmptyMap, EmptyMap)

\* faulty variant: a malformed line yields an entry for the site, with zero counters
line_contribution_empty_site(item, site) ==
    IF item.kind = "ioerr" THEN <<>>
    ELSE IF item.kind = "ok" THEN << generate_result_data_from_line(item, site) >>
    ELSE << ResultData_new(PADRON,
                           MapInsert(EmptyMap, site, SiteData_new(0, 0, EmptyMap)),
                           EmptyMap) >>

\* the filter_map closure of process_lines: <<>> is None, <<r>> is Some(r)
line_contribution(item, site) ==
    IF item.kind = "ioerr" THEN <<>>
    ELSE IF item.kind = "ok" THEN << generate_result_data_from_line(item, site) >>
    ELSE << Identity >>

----------------------------------------------------------------------------
(* processors.rs: the ranking engine *)

partial_cmp(x, y) == IF x < y THEN "Less" ELSE IF x = y THEN "Equal" ELSE "Greater"

\* faulty variant: equal coefficients are not told apart by the name
coef_only_cmp(a, b) == partial_cmp(b[2], a[2])

\* the comparator closure of sort_by_coef_and_name; a and b are (name, coef)
coef_and_name_cmp(a, b) ==
    LET coef_cmp == partial_cmp(b[2], a[2])
    IN  IF coef_cmp # "Equal" THEN coef_cmp ELSE partial_cmp(a[1], b[1])

\* slice::sort_by is a stable sort: x goes after every element not greater than it
RECURSIVE sort_insert(_, _)
sort_insert(sorted, x) ==
    IF sorted = <<>> THEN << x >>
    ELSE IF coef_and_name_cmp(x, Head(sorted)) = "Less"
         THEN << x >> \o sorted
         ELSE << Head(sorted) >> \o sort_insert(Tail(sorted), x)

RECURSIVE sort_from(_, _)
sort_from(sorted, data) ==
    IF data = <<>> THEN sorted
    ELSE sort_from(sort_insert(sorted, Head(data)), Tail(data))

sort_by_coef_and_name(data) == sort_from(<<>>, data)

\* faulty variant: the list is padded with empty names up to n entries
take_names_padded(data, n) ==
    [i \in 1..n |-> IF i <= Len(data) THEN data[i][1] ELSE EmptyName]

\* .into_iter().take(n).map(|(name, _)| name).collect()
take_names(data, n) ==
    [i \in 1..(IF Len(data) < n THEN Len(data) ELSE n) |-> data[i][1]]

\* order is the order in which the HashMap hands out its keys
process_tags(tags_data, order) ==
    LET top_tags == [i \in DOMAIN order |->
                        << order[i], TagData_get_coef(tags_data[order[i]]) >>]
    IN  take_names(sort_by_coef_and_name(top_tags), CHATTY_TAGS_MAX)

\* faulty variant: the task drains the site's tag map while it ranks it
site_task_drain(data, order) ==
    [data EXCEPT !.chatty_tags = process_tags(data.tags, order), !.tags = EmptyMap]

\* the closure of process_sites for one (site, data) entry
site_task(data, order) ==
    [data EXCEPT !.chatty_tags = process_tags(data.tags, order)]

\* the tail of process_sites: sort the collected pairs and take the first ones
chatty_sites_of(pairs) ==
    take_names(sort_by_coef_and_name(pairs), CHATTY_SITES_MAX)

(* HashMap iteration order: any order of the keys.  Every permutation is  *)
(* explored for key sets of at most MaxPermSize keys; for larger ones the *)
(* ascending order, the descending order and the rotations of the former. *)

Min(S) == CHOOSE x \in S : \A y \in S : x <= y

RECURSIVE Ascending(_)
Ascending(S) == IF S = {} THEN <<>> ELSE << Min(S) >> \o Ascending(S \ {Min(S)})

Reverse(s) == [i \in DOMAIN s |-> s[Len(s) + 1 - i]]

Rotate(s, k) == [i \in DOMAIN s |-> s[((i - 1 + k) % Len(s)) + 1]]

AllOrders(S) ==
    { p \in [1..Cardinality(S) -> S] : \A i, j \in DOMAIN p : p[i] = p[j] => i = j }

IterOrders(S) ==
    IF Cardinality(S) <= MaxPermSize
    THEN AllOrders(S)
    ELSE { Rotate(Ascending(S), k) : k \in 0..(Cardinality(S) - 1) }
         \cup { Reverse(Ascending(S)) }

----------------------------------------------------------------------------
(* The run *)

Files == DOMAIN paths

TotalLines == LET RECURSIVE Sum(_)
                  Sum(n) == IF n = 0 THEN 0 ELSE Len(lines[n]) + Sum(n - 1)
              IN  Sum(Len(paths))

Init ==
    /\ pc = "Idle"
    /\ paths = <<>>
    /\ fstate = <<>>
    /\ lines = <<>>
    /\ pool = <<>>
    /\ results_per_file = EmptyMap
    /\ combined_result = <<>>
    /\ folded = 0
    /\ top_sites = EmptyMap
    /\ rstep = "sites"
    /\ output = <<>>
    /\ merging = EmptyBag
    /\ site_writers = EmptyBag

\* main: list_files returns the paths of the directory
ListFiles ==
    /\ pc = "Idle"
    /\ \E pl \in PathLists :
          /\ paths' = pl
          /\ fstate' = [f \in DOMAIN pl |-> "pending"]
          /\ lines' = [f \in DOMAIN pl |-> <<>>]
          /\ pool' = [f \in DOMAIN pl |-> EmptyBag]
    /\ pc' = "Collecting"
    /\ UNCHANGED << results_per_file, combined_result, folded, top_sites, rstep, output,
                    merging, site_writers >>

\* list_files: read_dir fails, process::exit(1)
ListFilesFail ==
    /\ pc = "Idle"
    /\ pc' = "Aborted"
    /\ UNCHANGED << paths, fstate, lines, pool, results_per_file, combined_result,
                    folded, top_sites, rstep, output, merging, site_writers >>

\* process_file: File::open succeeds
OpenFile(f) ==
    /\ pc = "Collecting"
    /\ fstate[f] = "pending"
    /\ fstate' = [fstate EXCEPT ![f] = "open"]
    /\ UNCHANGED << pc, paths, lines, pool, results_per_file, combined_result,
                    folded, top_sites, rstep, output, merging, site_writers >>

\* faulty variant: a file that cannot be opened is logged and counts as an empty file
OpenFileFail_skip(f) ==
    /\ pc = "Collecting"
    /\ fstate[f] = "pending"
    /\ fstate' = [fstate EXCEPT ![f] = "failed"]
    /\ results_per_file' = MapInsert(results_per_file, f, Identity)
    /\ UNCHANGED << pc, paths, lines, pool, combined_result,
                    folded, top_sites, rstep, output, merging, site_writers >>

\* process_file: File::open fails, process::exit(1) ends the whole process
OpenFileFail(f) ==
    /\ pc = "Collecting"
    /\ fstate[f] = "pending"
    /\ fstate' = [fstate EXCEPT ![f] = "failed"]
    /\ pc' = "Aborted"
    /\ UNCHANGED << paths, lines, pool, results_per_file, combined_result,
                    folded, top_sites, rstep, output, merging, site_writers >>

\* process_lines: a worker takes the next item of reader.lines() through the
\* filter_map closure; what the closure returns joins the reduction
ReadLineUpTo(f, budget) ==
    /\ pc = "Collecting"
    /\ fstate[f] = "open"
    /\ TotalLines < budget
    /\ \E item \in LineItems :
          LET c == line_contribution(item, paths[f])
          IN  /\ lines' = [lines EXCEPT ![f] = Append(@, item)]
              /\ pool' = [pool EXCEPT ![f] = IF c = <<>> THEN @ ELSE @ (+) SetToBag({c[1]})]
    /\ UNCHANGED << pc, paths, fstate, results_per_file, combined_result,
                    folded, top_sites, rstep, output, merging, site_writers >>

ReadLine(f) == ReadLineUpTo(f, MaxLines)

\* process_lines on a path whose every read fails (list_files also lists the
\* subdirectories, and File::open opens a directory): lines() yields Err, now
\* and at every later call
ReadFails(f) ==
    /\ pc = "Collecting"
    /\ \/ fstate[f] = "open" /\ lines[f] = <<>>
       \/ fstate[f] = "skipped"
    /\ fstate' = [fstate EXCEPT ![f] = "readerr"]
    /\ UNCHANGED << pc, paths, lines, pool, results_per_file, combined_result,
                    folded, top_sites, rstep, output, merging, site_writers >>

\* process_lines: the closure logs the Err and returns None; the worker goes
\* back to lines()
SkipReadError(f) ==
    /\ pc = "Collecting"
    /\ fstate[f] = "readerr"
    /\ fstate' = [fstate EXCEPT ![f] = "skipped"]
    /\ UNCHANGED << pc, paths, lines, pool, results_per_file, combined_result,
                    folded, top_sites, rstep, output, merging, site_writers >>

\* reader.lines() is exhausted
EndOfFile(f) ==
    /\ pc = "Collecting"
    /\ fstate[f] = "open"
    /\ fstate' = [fstate EXCEPT ![f] = "eof"]
    /\ UNCHANGED << pc, paths, lines, pool, results_per_file, combined_result,
                    folded, top_sites, rstep, output, merging, site_writers >>

\* reduce: a worker starts an accumulator with the identity closure
InsertIdentity(f) ==
    /\ pc = "Collecting"
    /\ fstate[f] \in {"open", "eof"}
    /\ ~ BagIn(Identity, pool[f])
    /\ pool' = [pool EXCEPT ![f] = @ (+) SetToBag({Identity})]
    /\ UNCHANGED << pc, paths, fstate, lines, results_per_file, combined_result,
                    folded, top_sites, rstep, output, merging, site_writers >>

\* reduce: the closure |acc, b| acc + b on any two partial results
MergeStep(f) ==
    /\ pc = "Collecting"
    /\ fstate[f] \in {"open", "eof"}
    /\ \E a \in BagToSet(pool[f]) :
          \E b \in BagToSet(pool[f] (-) SetToBag({a})) :
             pool' = [pool EXCEPT ![f] =
                         ((@ (-) SetToBag({a})) (-) SetToBag({b})) (+) SetToBag({Add(a, b)})]
    /\ UNCHANGED << pc, paths, fstate, lines, results_per_file, combined_result,
                    folded, top_sites, rstep, output, merging, site_writers >>

\* process_lines returns the single value the reduction ends with
FinishLines(f) ==
    /\ pc = "Collecting"
    /\ fstate[f] = "eof"
    /\ BagCardinality(pool[f]) = 1
    /\ \A m \in BagToSet(merging) : m[1] # f
    /\ \E r \in BagToSet(pool[f]) :
          results_per_file' = MapInsert(results_per_file, f, r)
    /\ pool' = [pool EXCEPT ![f] = EmptyBag]
    /\ fstate' = [fstate EXCEPT ![f] = "done"]
    /\ UNCHANGED << pc, paths, lines, combined_result, folded, top_sites, rstep, output,
                    merging, site_writers >>

\* faulty variant: the accumulator starts with an entry for the site of every path
StartFold_every_site ==
    /\ pc = "Collecting"
    /\ \A f \in Files : fstate[f] = "done"
    /\ combined_result = <<>>
    /\ combined_result' =
          << ResultData_new(PADRON,
                            [s \in Range(paths) |-> SiteData_new(0, 0, EmptyMap)],
                            EmptyMap) >>
    /\ UNCHANGED << pc, paths, fstate, lines, pool, results_per_file,
                    folded, top_sites, rstep, output, merging, site_writers >>

\* process_files: collect() is complete, the accumulator is created
StartFold ==
    /\ pc = "Collecting"
    /\ \A f \in Files : fstate[f] = "done"
    /\ combined_result = <<>>
    /\ combined_result' = << Identity >>
    /\ UNCHANGED << pc, paths, fstate, lines, pool, results_per_file,
                    folded, top_sites, rstep, output, merging, site_writers >>

\* process_files: combined_result = combined_result + result
FoldStep ==
    /\ pc = "Collecting"
    /\ combined_result # <<>>
    /\ folded < Len(paths)
    /\ combined_result' = << Add(combined_result[1], results_per_file[folded + 1]) >>
    /\ folded' = folded + 1
    /\ UNCHANGED << pc, paths, fstate, lines, pool, results_per_file,
                    top_sites, rstep, output, merging, site_writers >>

\* faulty variant: process_totals is called before the fold loop has finished
StartRanking_early ==
    /\ pc = "Collecting"
    /\ combined_result # <<>>
    /\ pc' = "Ranking"
    /\ UNCHANGED << paths, fstate, lines, pool, results_per_file, combined_result,
                    folded, top_sites, rstep, output, merging, site_writers >>

\* process_files returns; main calls process_totals
StartRanking ==
    /\ pc = "Collecting"
    /\ combined_result # <<>>
    /\ folded = Len(paths)
    /\ pc' = "Ranking"
    /\ UNCHANGED << paths, fstate, lines, pool, results_per_file, combined_result,
                    folded, top_sites, rstep, output, merging, site_writers >>

\* process_sites: the par_iter_mut closure on one site
RankSite(s) ==
    /\ pc = "Ranking"
    /\ rstep = "sites"
    /\ s \in DOMAIN combined_result[1].sites
    /\ s \notin DOMAIN top_sites
    /\ LET data == combined_result[1].sites[s]
       IN  /\ \E order \in IterOrders(DOMAIN data.tags) :
                 combined_result' =
                    << [combined_result[1] EXCEPT !.sites[s] = site_task(data, order)] >>
           /\ top_sites' = MapInsert(top_sites, s, SiteData_get_coef(data))
    /\ UNCHANGED << pc, paths, fstate, lines, pool, results_per_file,
                    folded, rstep, output, merging, site_writers >>

\* process_sites: sort and take; process_totals stores totals.chatty_sites
CollectSites ==
    /\ pc = "Ranking"
    /\ rstep = "sites"
    /\ DOMAIN top_sites = DOMAIN combined_result[1].sites
    /\ \E order \in IterOrders(DOMAIN top_sites) :
          combined_result' =
             << [combined_result[1] EXCEPT !.totals.chatty_sites =
                    chatty_sites_of([i \in DOMAIN order |->
                                        << order[i], top_sites[order[i]] >>])] >>
    /\ rstep' = "tags"
    /\ UNCHANGED << pc, paths, fstate, lines, pool, results_per_file,
                    folded, top_sites, output, merging, site_writers >>

\* process_totals: totals.chatty_tags = process_tags(&result_data.tags)
RankTags ==
    /\ pc = "Ranking"
    /\ rstep = "tags"
    /\ \E order \in IterOrders(DOMAIN combined_result[1].tags) :
          combined_result' =
             << [combined_result[1] EXCEPT !.totals.chatty_tags =
                    process_tags(combined_result[1].tags, order)] >>
    /\ rstep' = "print"
    /\ UNCHANGED << pc, paths, fstate, lines, pool, results_per_file,
                    folded, top_sites, output, merging, site_writers >>

\* faulty variant: after printing, main goes back to reading the files
PrintReport_again ==
    /\ pc = "Ranking"
    /\ rstep = "print"
    /\ output' = combined_result
    /\ pc' = "Collecting"
    /\ folded' = 0
    /\ UNCHANGED << paths, fstate, lines, pool, results_per_file, combined_result,
                    top_sites, rstep, merging, site_writers >>

\* main: the finished Report is serialized and printed
PrintReport ==
    /\ pc = "Ranking"
    /\ rstep = "print"
    /\ output' = combined_result
    /\ pc' = "Done"
    /\ UNCHANGED << paths, fstate, lines, pool, results_per_file, combined_result,
                    folded, top_sites, rstep, merging, site_writers >>

RankableSites == IF combined_result = <<>> THEN {} ELSE DOMAIN combined_result[1].sites

Next ==
    \/ ListFiles
    \/ ListFilesFail
    \/ \E f \in Files : OpenFile(f)
    \/ \E f \in Files : OpenFileFail(f)
    \/ \E f \in Files : ReadLine(f)
    \/ \E f \in Files : EndOfFile(f)
    \/ \E f \in Files : InsertIdentity(f)
    \/ \E f \in Files : MergeStep(f)
    \/ \E f \in Files : FinishLines(f)
    \/ StartFold
    \/ FoldStep
    \/ StartRanking
    \/ \E s \in RankableSites : RankSite(s)
    \/ CollectSites
    \/ RankTags
    \/ PrintReport

Spec == Init /\ [][Next]_vars

----------------------------------------------------------------------------
(* The run with the closures of the workers in two steps: a closure takes   *)
(* what it works on, and later leaves its result.  Between the two steps    *)
(* the worker holds write access to what it took.                           *)

\* reduce: a worker calls |acc, b| acc + b; the two partial results are moved
\* into the call
BeginMerge(f) ==
    /\ pc = "Collecting"
    /\ fstate[f] \in {"open", "eof"}
    /\ \E a \in BagToSet(pool[f]) :
          \E b \in BagToSet(pool[f] (-) SetToBag({a})) :
             /\ pool' = [pool EXCEPT ![f] = (@ (-) SetToBag({a})) (-) SetToBag({b})]
             /\ merging' = merging (+) SetToBag({ << f, a, b >> })
    /\ UNCHANGED << pc, paths, fstate, lines, results_per_file, combined_result,
                    folded, top_sites, rstep, output, site_writers >>

\* reduce: the call returns acc + b, which joins the reduction
EndMerge(f) ==
    /\ pc = "Collecting"
    /\ \E m \in BagToSet(merging) :
          /\ m[1] = f
          /\ pool' = [pool EXCEPT ![f] = @ (+) SetToBag({Add(m[2], m[3])})]
          /\ merging' = merging (-) SetToBag({m})
    /\ UNCHANGED << pc, paths, fstate, lines, results_per_file, combined_result,
                    folded, top_sites, rstep, output, site_writers >>

\* faulty variant: the iterator hands an entry out while a task still holds it
BeginRankSite_shared(s) ==
    /\ pc = "Ranking"
    /\ rstep = "sites"
    /\ s \in DOMAIN combined_result[1].sites
    /\ s \notin DOMAIN top_sites
    /\ site_writers' = site_writers (+) SetToBag({s})
    /\ UNCHANGED << pc, paths, fstate, lines, pool, results_per_file, combined_result,
                    folded, top_sites, rstep, output, merging >>

\* process_sites: par_iter_mut hands the entry (site, &mut data) to a task
BeginRankSite(s) ==
    /\ pc = "Ranking"
    /\ rstep = "sites"
    /\ s \in DOMAIN combined_result[1].sites
    /\ s \notin DOMAIN top_sites
    /\ ~ BagIn(s, site_writers)
    /\ site_writers' = site_writers (+) SetToBag({s})
    /\ UNCHANGED << pc, paths, fstate, lines, pool, results_per_file, combined_result,
                    folded, top_sites, rstep, output, merging >>

\* process_sites: the task writes data.chatty_tags and returns (site, coef)
EndRankSite(s) ==
    /\ pc = "Ranking"
    /\ rstep = "sites"
    /\ BagIn(s, site_writers)
    /\ LET data == combined_result[1].sites[s]
       IN  /\ \E order \in IterOrders(DOMAIN data.tags) :
                 combined_result' =
                    << [combined_result[1] EXCEPT !.sites[s] = site_task(data, order)] >>
           /\ top_sites' = MapInsert(top_sites, s, SiteData_get_coef(data))
    /\ site_writers' = site_writers (-) SetToBag({s})
    /\ UNCHANGED << pc, paths, fstate, lines, pool, results_per_file,
                    folded, rstep, output, merging >>

NextTasks ==
    \/ ListFiles
    \/ ListFilesFail
    \/ \E f \in Files : OpenFile(f)
    \/ \E f \in Files : OpenFileFail(f)
    \/ \E f \in Files : ReadLineUpTo(f, MaxTaskLines)
    \/ \E f \in Files : EndOfFile(f)
    \/ \E f \in Files : InsertIdentity(f)
    \/ \E f \in Files : BeginMerge(f)
    \/ \E f \in Files : EndMerge(f)
    \/ \E f \in Files : FinishLines(f)
    \/ StartFold
    \/ FoldStep
    \/ StartRanking
    \/ \E s \in RankableSites : BeginRankSite(s)
    \/ \E s \in RankableSites : EndRankSite(s)
    \/ CollectSites
    \/ RankTags
    \/ PrintReport

SpecTasks == Init /\ [][NextTasks]_vars

----------------------------------------------------------------------------
(* The run under fair scheduling, over a directory that may hold entries    *)
(* whose every read fails.                                                  *)

NextFair ==
    \/ ListFiles
    \/ ListFilesFail
    \/ \E f \in Files : OpenFile(f)
    \/ \E f \in Files : OpenFileFail(f)
    \/ \E f \in Files : ReadLineUpTo(f, MaxTaskLines)
    \/ \E f \in Files : ReadFails(f)
    \/ \E f \in Files : SkipReadError(f)
    \/ \E f \in Files : EndOfFile(f)
    \/ \E f \in Files : InsertIdentity(f)
    \/ \E f \in Files : MergeStep(f)
    \/ \E f \in Files : FinishLines(f)
    \/ StartFold
    \/ FoldStep
    \/ StartRanking
    \/ \E s \in RankableSites : RankSite(s)
    \/ CollectSites
    \/ RankTags
    \/ PrintReport

\* the positions of a directory listing
FileIds == UNION { DOMAIN pl : pl \in PathLists }

\* the steps of the main thread
MainStep ==
    \/ ListFiles
    \/ ListFilesFail
    \/ StartFold
    \/ FoldStep
    \/ StartRanking
    \/ CollectSites
    \/ RankTags
    \/ PrintReport

\* the steps of the worker that feeds the items of file f to the closure
ReaderStep(f) ==
    \/ OpenFile(f)
    \/ OpenFileFail(f)
    \/ ReadLineUpTo(f, MaxTaskLines)
    \/ ReadFails(f)
    \/ SkipReadError(f)
    \/ EndOfFile(f)

\* the partial results of a reduction that are not the identity
NonIdentity(B) == BagCardinality(B) - CopiesIn(Identity, B)

\* a call of the reduce closure on two partial results that hold records
CombineStep(f) ==
    /\ MergeStep(f)
    /\ NonIdentity(pool'[f]) < NonIdentity(pool[f])

\* the thread pool runs every task that is ready; a reduction is a finite tree
\* of calls of the closure: it does not go on for ever creating identities and
\* merging them away, it combines the partial results and returns
Fairness ==
    /\ WF_vars(MainStep)
    /\ \A f \in FileIds :
          /\ WF_vars(f \in Files /\ ReaderStep(f))
          /\ WF_vars(f \in Files /\ InsertIdentity(f))
          /\ WF_vars(f \in Files /\ MergeStep(f))
          /\ SF_vars(f \in Files /\ CombineStep(f))
          /\ SF_vars(f \in Files /\ FinishLines(f))
    /\ \A s \in SiteNames : WF_vars(s \in RankableSites /\ RankSite(s))

SpecFair == Init /\ [][NextFair]_vars /\ Fairness

----------------------------------------------------------------------------
(* The ranking pass on large Reports.  The run starts where process_files  *)
(* has returned the Report of a corpus with up to MaxRankNames tags and    *)
(* sites; the Report is the one the sequential schedule of the reduction   *)
(* builds.                                                                  *)

\* the reduction of process_lines run by one worker over the items in order
RECURSIVE FoldLines(_, _, _)
FoldLines(acc, items, site) ==
    IF items = <<>> THEN acc
    ELSE LET c == line_contribution(Head(items), site)
         IN  FoldLines(IF c = <<>> THEN acc ELSE Add(acc, c[1]), Tail(items), site)

\* the loop of process_files over a list of per-file results
RECURSIVE FoldResults(_, _)
FoldResults(acc, results) ==
    IF results = <<>> THEN acc
    ELSE FoldResults(Add(acc, Head(results)), Tail(results))

WordsText(n) == [i \in 1..n |-> <<"a">>]

TagRecord(t, w) == [kind |-> "ok", texts |-> WordsText(w), tags |-> <<t>>]

PatternWords(i, k) == 1 + ((i * k) % 3)

\* one file: site 1 with one record for each of n tags, of w[t] words
ManyTags(n, w) ==
    [paths |-> <<1>>, lines |-> << [t \in 1..n |-> TagRecord(t, w[t])] >>]

\* m files of m sites: site 1 with one record for each of MaxRankNames tags,
\* the other sites with one record of tag 1
ManySites(m, k) ==
    [paths |-> [f \in 1..m |-> f],
     lines |-> [f \in 1..m |->
                  IF f = 1
                  THEN [t \in 1..MaxRankNames |-> TagRecord(t, PatternWords(t, k))]
                  ELSE << TagRecord(1, PatternWords(f, k)) >>]]

RankCorpora ==
    UNION { { ManyTags(n, w) : w \in [1..n -> 1..2] } : n \in 0..MaxRankNames }
    \cup { ManySites(m, k) : m \in 2..MaxRankNames, k \in 0..2 }

InitRank ==
    \E c \in RankCorpora :
       LET results == [f \in DOMAIN c.paths |->
                          FoldLines(Identity, c.lines[f], c.paths[f])]
       IN  /\ pc = "Ranking"
           /\ paths = c.paths
           /\ fstate = [f \in DOMAIN c.paths |-> "done"]
           /\ lines = c.lines
           /\ pool = [f \in DOMAIN c.paths |-> EmptyBag]
           /\ results_per_file = results
           /\ combined_result = << FoldResults(Identity, results) >>
           /\ folded = Len(c.paths)
           /\ top_sites = EmptyMap
           /\ rstep = "sites"
           /\ output = <<>>
           /\ merging = EmptyBag
           /\ site_writers = EmptyBag

NextRank ==
    \/ \E s \in RankableSites : RankSite(s)
    \/ CollectSites
    \/ RankTags
    \/ PrintReport

SpecRank == InitRank /\ [][NextRank]_vars

----------------------------------------------------------------------------
(* Reference values the claims compare the run with *)

\* the counting part of a Report: key sets, questions and words (no ranking fields)
Counts(r) ==
    [sites |-> [s \in DOMAIN r.sites |->
                   [questions |-> r.sites[s].questions,
                    words |-> r.sites[s].words,
                    tags |-> r.sites[s].tags]],
     tags |-> r.tags]

\* every Report value that exists in the current state
AllReports ==
    UNION { BagToSet(pool[f]) : f \in Files }
    \cup { results_per_file[f] : f \in DOMAIN results_per_file }
    \cup Range(combined_result)
    \cup Range(output)

Collected == combined_result # <<>> /\ folded = Len(paths)

\* positions (file, line number) of the well-formed records read so far
OkPositions ==
    { p \in UNION { { << f, i >> : i \in DOMAIN lines[f] } : f \in Files } :
        lines[p[1]][p[2]].kind = "ok" }

RecordAt(p) == lines[p[1]][p[2]]

SitePositions(s) == { p \in OkPositions : paths[p[1]] = s }

TagPositions(P, t) == { p \in P : t \in Range(RecordAt(p).tags) }

RECURSIVE SumWords(_)
SumWords(P) ==
    IF P = {} THEN 0
    ELSE LET p == CHOOSE x \in P : TRUE
         IN  word_counter(RecordAt(p).texts) + SumWords(P \ {p})

Occurrences(list, t) == Cardinality({ i \in DOMAIN list : list[i] = t })

NoRepeatedTags == \A p \in OkPositions : \A t \in TagNames : Occurrences(RecordAt(p).tags, t) <= 1

CounterIs(map, k, P) ==
    IF P = {} THEN k \notin DOMAIN map
    ELSE /\ k \in DOMAIN map
         /\ map[k].questions = Cardinality(P)
         /\ map[k].words = SumWords(P)

----------------------------------------------------------------------------
(* Claims *)

\* C1: whatever order and grouping the workers merge the contributions in, the
\* result is the same: every per-file result has the key sets, questions and
\* words of the in-order fold of the file's lines and of the fold in reverse
\* order, and the Report folded from the files equals the fold of the per-file
\* results taken in reverse order.
C1_MergeOrderIndependent ==
    /\ \A f \in DOMAIN results_per_file :
          /\ Counts(results_per_file[f]) = Counts(FoldLines(Identity, lines[f], paths[f]))
          /\ Counts(results_per_file[f])
                = Counts(FoldLines(Identity, Reverse(lines[f]), paths[f]))
    /\ Collected =>
          Counts(combined_result[1])
             = Counts(FoldResults(Identity,
                         Reverse([f \in 1..Len(paths) |-> results_per_file[f]])))

\* a file of three records that share a tag, with different word counts, has
\* been reduced and folded into the Report
C1_Witness ==
    /\ Collected
    /\ \E f \in Files :
          /\ Len(lines[f]) = 3
          /\ \A i \in 1..3 : lines[f][i].kind = "ok" /\ 1 \in Range(lines[f][i].tags)
          /\ \E i, j \in 1..3 : lines[f][i].texts # lines[f][j].texts

\* C2: once process_files has folded every file, each site's questions is the
\* number of well-formed records of the site and its words the sum of their
\* word counts, whatever the number of tags of the records.
C2_SiteCountsOncePerRecord ==
    Collected =>
       \A s \in SiteNames :
          CounterIs(combined_result[1].sites, s, SitePositions(s))

\* a site with a record of no tag, a record of one tag and one of two tags
C2_Witness ==
    /\ Collected
    /\ \E s \in SiteNames :
          /\ \E p \in SitePositions(s) : Len(RecordAt(p).tags) = 0
          /\ \E p \in SitePositions(s) : Len(RecordAt(p).tags) = 1
          /\ \E p \in SitePositions(s) : Len(RecordAt(p).tags) = 2

\* C3: for records without a repeated tag, once process_files has folded every
\* file each site-local tag Counter counts the site's records listing the tag
\* and sums their words, and each global tag Counter does so over all sites.
C3_TagCountsPerRecord ==
    (Collected /\ NoRepeatedTags) =>
       /\ \A s \in DOMAIN combined_result[1].sites : \A t \in TagNames :
             CounterIs(combined_result[1].sites[s].tags, t,
                       TagPositions(SitePositions(s), t))
       /\ \A t \in TagNames :
             CounterIs(combined_result[1].tags, t, TagPositions(OkPositions, t))

\* a tag carried by records of two sites, twice in one of them
C3_Witness ==
    /\ Collected
    /\ NoRepeatedTags
    /\ Cardinality(TagPositions(SitePositions(1), 1)) = 1
    /\ Cardinality(TagPositions(SitePositions(2), 1)) = 2

\* the contribution the line reducer makes of the record at position p
ContributionAt(p) == generate_result_data_from_line(RecordAt(p), paths[p[1]])

RepeatedTagPositions == { p \in OkPositions : \E t \in TagNames : Occurrences(RecordAt(p).tags, t) > 1 }

\* C4 as stated: a tag named n > 1 times in one record's tag list gets
\* questions = n and words = n times the record's words in the record's
\* contribution, site-local and global.
C4_Original ==
    \A p \in OkPositions : \A t \in TagNames :
       LET n == Occurrences(RecordAt(p).tags, t)
           w == word_counter(RecordAt(p).texts)
           c == ContributionAt(p)
       IN  n > 1 =>
              /\ c.tags[t] = TagData_new(n, n * w)
              /\ c.sites[paths[p[1]]].tags[t] = TagData_new(n, n * w)

\* C4 amended: a tag named n > 1 times in one record's tag list is counted
\* once: the contribution has questions = 1 and words = the record's words for
\* it, site-local and global, and so has the result of a file made of that record.
C4_RepeatedTagCountedOnce ==
    \A p \in OkPositions : \A t \in TagNames :
       LET n == Occurrences(RecordAt(p).tags, t)
           w == word_counter(RecordAt(p).texts)
           c == ContributionAt(p)
           f == p[1]
       IN  n > 1 =>
              /\ c.tags[t] = TagData_new(QUESTIONS_PER_LINE, w)
              /\ c.sites[paths[f]].tags[t] = TagData_new(QUESTIONS_PER_LINE, w)
              /\ (f \in DOMAIN results_per_file /\ Len(lines[f]) = 1) =>
                    Counts(results_per_file[f]) = Counts(c)

\* a file whose only line is a record naming a tag twice has been reduced
C4_Witness ==
    \E p \in RepeatedTagPositions :
       /\ p[1] \in DOMAIN results_per_file
       /\ Len(lines[p[1]]) = 1

NotMalformed(item) == item.kind # "malformed"

\* C5: a malformed line contributes the identity: every per-file result is the
\* Report of the file with its malformed lines removed, and the Report folded
\* from the files is the one folded from the files so cleaned.
C5_MalformedIsIdentity ==
    /\ \A f \in DOMAIN results_per_file :
          results_per_file[f]
             = FoldLines(Identity, SelectSeq(lines[f], NotMalformed), paths[f])
    /\ (Collected /\ pc = "Collecting") =>
          combined_result[1]
             = FoldResults(Identity,
                  [f \in 1..Len(paths) |->
                      FoldLines(Identity, SelectSeq(lines[f], NotMalformed), paths[f])])

\* a file with a malformed line between two well-formed records has been reduced
C5_Witness ==
    \E f \in DOMAIN results_per_file :
       /\ Len(lines[f]) = 3
       /\ lines[f][1].kind = "ok"
       /\ lines[f][2].kind = "malformed"
       /\ lines[f][3].kind = "ok"
       /\ Collected

QuestionsOf(map, k) == IF k \in DOMAIN map THEN map[k].questions ELSE 0

WordsOf(map, k) == IF k \in DOMAIN map THEN map[k].words ELSE 0

RECURSIVE SumSiteTagWords(_, _, _)
SumSiteTagWords(r, S, t) ==
    IF S = {} THEN 0
    ELSE LET x == CHOOSE y \in S : TRUE
         IN  WordsOf(r.sites[x].tags, t) + SumSiteTagWords(r, S \ {x}, t)

RECURSIVE SumSiteTagQuestions(_, _, _)
SumSiteTagQuestions(r, S, t) ==
    IF S = {} THEN 0
    ELSE LET x == CHOOSE y \in S : TRUE
         IN  QuestionsOf(r.sites[x].tags, t) + SumSiteTagQuestions(r, S \ {x}, t)

\* C6: additivity: in every Report (contribution, partial result of a merge,
\* per-file result, folded Report) the global words and questions of a tag are
\* the sums over the sites of the tag's words and questions in the site.
C6_Additivity ==
    \A r \in AllReports : \A t \in TagNames :
       /\ WordsOf(r.tags, t) = SumSiteTagWords(r, DOMAIN r.sites, t)
       /\ QuestionsOf(r.tags, t) = SumSiteTagQuestions(r, DOMAIN r.sites, t)

\* a Report merged from two sites that both carry tag 1, one of them twice
C6_Witness ==
    \E r \in AllReports :
       /\ DOMAIN r.sites = {1, 2}
       /\ QuestionsOf(r.sites[1].tags, 1) = 1
       /\ QuestionsOf(r.sites[2].tags, 1) = 2

\* list is strictly ordered by (coefficient descending, name ascending)
RankedOrder(list, coef) ==
    /\ Range(list) \subseteq DOMAIN coef
    /\ \A i, j \in DOMAIN list :
          i < j => \/ coef[list[i]] > coef[list[j]]
                   \/ coef[list[i]] = coef[list[j]] /\ list[i] < list[j]

CoefOf(map) == [k \in DOMAIN map |-> map[k].words \div map[k].questions]

RankingDone == pc \in {"Ranking", "Done"} /\ rstep = "print"

\* C7: after the ranking pass totals.chatty_tags, every site's chatty_tags and
\* totals.chatty_sites are strictly ordered by (coefficient descending, name
\* ascending), a tag's coefficient being floor(words / questions) of its Counter
\* and a site's coefficient floor(words / questions) of the site itself.
C7_RankedByCoefThenName ==
    RankingDone =>
       LET r == combined_result[1]
       IN  /\ RankedOrder(r.totals.chatty_tags, CoefOf(r.tags))
           /\ \A s \in DOMAIN r.sites :
                 RankedOrder(r.sites[s].chatty_tags, CoefOf(r.sites[s].tags))
           /\ RankedOrder(r.totals.chatty_sites, CoefOf(r.sites))

\* the larger coefficient puts the larger name first in both totals, and two
\* tags of equal coefficient stand in name order in a site's list
C7_Witness ==
    /\ pc = "Done"
    /\ output[1].totals.chatty_tags = <<2, 1>>
    /\ output[1].totals.chatty_sites = <<2, 1>>
    /\ output[1].sites[2].chatty_tags = <<1, 2>>
    /\ CoefOf(output[1].sites[2].tags)[1] = CoefOf(output[1].sites[2].tags)[2]

\* the operand pairs the run can hand to the merge in the current state: two
\* partial results of one file's reduction, or the accumulator of process_files
\* and the next per-file result
PoolPairs(f) ==
    UNION { { << a, b >> : b \in BagToSet(pool[f] (-) SetToBag({a})) } :
               a \in BagToSet(pool[f]) }

MergePairs ==
    UNION { PoolPairs(f) : f \in Files }
    \cup (IF pc = "Collecting" /\ combined_result # <<>> /\ folded < Len(paths)
          THEN { << combined_result[1], results_per_file[folded + 1] >> }
          ELSE {})

CounterMerged(ma, mb, mc, k) ==
    IF k \in DOMAIN ma /\ k \in DOMAIN mb
    THEN /\ mc[k].questions = ma[k].questions + mb[k].questions
         /\ mc[k].words = ma[k].words + mb[k].words
    ELSE IF k \in DOMAIN ma THEN mc[k] = ma[k] ELSE mc[k] = mb[k]

TagMapMerged(ma, mb, mc) ==
    /\ DOMAIN mc = (DOMAIN ma) \cup (DOMAIN mb)
    /\ \A t \in DOMAIN mc : CounterMerged(ma, mb, mc, t)

KeyWiseUnion(a, b, c) ==
    /\ DOMAIN c.sites = (DOMAIN a.sites) \cup (DOMAIN b.sites)
    /\ TagMapMerged(a.tags, b.tags, c.tags)
    /\ \A s \in DOMAIN c.sites :
          /\ CounterMerged(a.sites, b.sites, c.sites, s)
          /\ (s \in DOMAIN a.sites /\ s \in DOMAIN b.sites) =>
                TagMapMerged(a.sites[s].tags, b.sites[s].tags, c.sites[s].tags)

\* C9: merge is a key-wise union at both levels: the key sets of the result are
\* the unions of the operands' key sets, a key of both operands has the sums of
\* their questions and words (a site's tag map being merged the same way), and
\* a key of one operand keeps that operand's value unchanged.
C9_MergeIsKeyWiseUnion ==
    \A ab \in MergePairs : KeyWiseUnion(ab[1], ab[2], Add(ab[1], ab[2]))

\* two partial results of one file share a site and a tag of it, and one of them
\* has a tag the other lacks
C9_Witness ==
    \E ab \in MergePairs :
       \E s \in (DOMAIN ab[1].sites) \cap (DOMAIN ab[2].sites) :
          /\ (DOMAIN ab[1].sites[s].tags) \cap (DOMAIN ab[2].sites[s].tags) # {}
          /\ (DOMAIN ab[2].sites[s].tags) \ (DOMAIN ab[1].sites[s].tags) # {}

OpenFailed == \E f \in Files : fstate[f] = "failed"

ReadFailed == \E f \in Files : \E i \in DOMAIN lines[f] : lines[f][i].kind = "ioerr"

NotReadError(item) == item.kind # "ioerr"

TopOf(list, map, k) ==
    LET n == Cardinality(DOMAIN map)
        coef == CoefOf(map)
    IN  /\ Len(list) = (IF n < k THEN n ELSE k)
        /\ Range(list) \subseteq DOMAIN map
        /\ \A i, j \in DOMAIN list : list[i] = list[j] => i = j
        /\ \A x \in (DOMAIN map) \ Range(list) : \A y \in Range(list) :
              \/ coef[y] > coef[x]
              \/ coef[y] = coef[x] /\ y < x

\* C8: after the ranking pass each chatty list has exactly min(n, 10) entries
\* for the n names of its map, all distinct names of the map and no padding
\* entry: every name when n <= 10, the 10 highest by (coefficient descending,
\* name ascending) when n > 10.
C8_TopTenNoPadding ==
    RankingDone =>
       LET r == combined_result[1]
       IN  /\ TopOf(r.totals.chatty_tags, r.tags, CHATTY_TAGS_MAX)
           /\ \A s \in DOMAIN r.sites :
                 TopOf(r.sites[s].chatty_tags, r.sites[s].tags, CHATTY_TAGS_MAX)
           /\ TopOf(r.totals.chatty_sites, r.sites, CHATTY_SITES_MAX)

\* a Report of more than 10 sites and more than 10 tags has been ranked: the
\* three kinds of list are cut to 10 names, a name left out of totals.chatty_tags
\* is smaller than a name kept, and another site lists its only tag
C8_Witness ==
    /\ pc = "Done"
    /\ LET r == output[1]
       IN  /\ Cardinality(DOMAIN r.tags) > CHATTY_TAGS_MAX
           /\ Cardinality(DOMAIN r.sites) > CHATTY_SITES_MAX
           /\ Len(r.totals.chatty_tags) = CHATTY_TAGS_MAX
           /\ Len(r.totals.chatty_sites) = CHATTY_SITES_MAX
           /\ Len(r.sites[1].chatty_tags) = CHATTY_TAGS_MAX
           /\ r.sites[2].chatty_tags = <<1>>
           /\ \E x \in (DOMAIN r.tags) \ Range(r.totals.chatty_tags) :
                 \E y \in Range(r.totals.chatty_tags) : x < y

----------------------------------------------------------------------------
(* The barrier between collecting and ranking *)

RankingBegun == pc \in {"Ranking", "Done"}

RECURSIVE SiteQuestions(_, _)
SiteQuestions(r, S) ==
    IF S = {} THEN 0
    ELSE LET x == CHOOSE y \in S : TRUE
         IN  r.sites[x].questions + SiteQuestions(r, S \ {x})

RECURSIVE SiteWords(_, _)
SiteWords(r, S) ==
    IF S = {} THEN 0
    ELSE LET x == CHOOSE y \in S : TRUE
         IN  r.sites[x].words + SiteWords(r, S \ {x})

\* C11: the ranking pass begins only behind the barrier: whenever the run is in
\* the ranking pass or past it, every file has been opened, read to its end,
\* reduced to its per-file result (no partial result is left in a reduction),
\* every per-file result has been folded into the Report, and the Report holds
\* the contribution of every well-formed record of every file: the record's
\* site and tags are keys of it and the sites' questions and words add up to
\* the number of well-formed records and to the sum of their words.
C11_RankingBehindBarrier ==
    RankingBegun =>
       /\ \A f \in Files :
             /\ fstate[f] = "done"
             /\ pool[f] = EmptyBag
             /\ f \in DOMAIN results_per_file
       /\ combined_result # <<>>
       /\ folded = Len(paths)
       /\ LET r == combined_result[1]
          IN  /\ \A p \in OkPositions :
                    /\ paths[p[1]] \in DOMAIN r.sites
                    /\ Range(RecordAt(p).tags) \subseteq DOMAIN r.tags
                    /\ Range(RecordAt(p).tags) \subseteq DOMAIN r.sites[paths[p[1]]].tags
              /\ SiteQuestions(r, DOMAIN r.sites) = Cardinality(OkPositions)
              /\ SiteWords(r, DOMAIN r.sites) = SumWords(OkPositions)

\* the ranking pass is about to start on the Report of two files of two sites,
\* one of a well-formed record and a malformed line, one of a record
C11_Witness ==
    /\ pc = "Ranking"
    /\ rstep = "sites"
    /\ top_sites = EmptyMap
    /\ Len(paths) = 2
    /\ \E f, g \in Files :
          /\ paths[f] # paths[g]
          /\ Cardinality({ p \in OkPositions : p[1] = f }) = 1
          /\ \E i \in DOMAIN lines[f] : lines[f][i].kind = "malformed"
          /\ Cardinality({ p \in OkPositions : p[1] = g }) >= 1

\* C12: every tag Counter of every Report of every reachable state (a line's
\* contribution, a partial result of a reduction, a per-file result, the folded
\* and the ranked Report), in the global tag map and in every site's tag map,
\* has questions >= 1: TagData_get_coef never divides by zero.
C12_CounterQuestionsPositive ==
    \A r \in AllReports :
       /\ \A t \in DOMAIN r.tags : r.tags[t].questions >= 1
       /\ \A s \in DOMAIN r.sites : \A t \in DOMAIN r.sites[s].tags :
             r.sites[s].tags[t].questions >= 1

\* the ranked Report has a tag counted in three records, once in one site and
\* twice in the other, and the ranking pass has divided by these counts
C12_Witness ==
    /\ pc = "Done"
    /\ LET r == output[1]
       IN  /\ 1 \in DOMAIN r.tags
           /\ r.tags[1].questions = 3
           /\ \E s, u \in DOMAIN r.sites :
                 /\ 1 \in DOMAIN r.sites[s].tags
                 /\ 1 \in DOMAIN r.sites[u].tags
                 /\ r.sites[s].tags[1].questions = 1
                 /\ r.sites[u].tags[1].questions = 2

----------------------------------------------------------------------------
(* The ranking fields before the ranking pass *)

\* the chatty_tags SiteData::new gives a new SiteData
Placeholders == [i \in 1..CHATTY_TAGS_MAX |-> EmptyName]

\* the Reports the ranking pass never works on
UnrankedReports ==
    UNION { BagToSet(pool[f]) : f \in Files }
    \cup { results_per_file[f] : f \in DOMAIN results_per_file }

\* the SiteData the ranking pass has not touched yet
UnrankedSiteData ==
    UNION { Range(r.sites) : r \in UnrankedReports }
    \cup (IF combined_result = <<>> THEN {}
          ELSE { combined_result[1].sites[s] :
                    s \in (DOMAIN combined_result[1].sites) \ (DOMAIN top_sites) })

\* the SiteData a per-site task of the ranking pass has written
RankedSiteData ==
    IF combined_result = <<>> THEN {}
    ELSE { combined_result[1].sites[s] :
              s \in (DOMAIN combined_result[1].sites) \cap (DOMAIN top_sites) }

\* C13 as stated: in every SiteData the ranking pass has not touched (new or
\* merged) chatty_tags is the empty list.
C13_Original ==
    \A d \in UnrankedSiteData : d.chatty_tags = <<>>

\* C13 amended: in every SiteData the ranking pass has not touched (new or
\* merged) chatty_tags names no tag: it is the list of CHATTY_TAGS_MAX empty
\* names of SiteData::new; once the site's task of the ranking pass has run it
\* holds at most CHATTY_TAGS_MAX names, all of them tags of the site.
C13_PlaceholdersUntilRanked ==
    /\ \A d \in UnrankedSiteData : d.chatty_tags = Placeholders
    /\ \A d \in RankedSiteData :
          /\ Len(d.chatty_tags) <= CHATTY_TAGS_MAX
          /\ Range(d.chatty_tags) \subseteq DOMAIN d.tags

\* the ranking pass has ranked the two tags of a site built by merging and has
\* not run yet on the other site
C13_Witness ==
    /\ pc = "Ranking"
    /\ \E d \in RankedSiteData : d.questions >= 2 /\ Len(d.chatty_tags) = 2
    /\ \E d \in UnrankedSiteData : d \in Range(combined_result[1].sites)

\* the Reports whose totals the ranking pass has not written yet
ReportsBeforeTotals ==
    UnrankedReports \cup (IF rstep = "sites" THEN Range(combined_result) ELSE {})

\* C14: in every Report that exists before the ranking pass writes the totals
\* (the identity, a line's contribution, every result of a merge, the per-file
\* results, the folded Report) totals.chatty_sites and totals.chatty_tags are
\* both empty, and so are they in the result of every merge the run can make.
C14_TotalsEmptyBeforeRanking ==
    /\ \A r \in ReportsBeforeTotals :
          r.totals.chatty_sites = <<>> /\ r.totals.chatty_tags = <<>>
    /\ \A ab \in MergePairs :
          LET c == Add(ab[1], ab[2])
          IN  c.totals.chatty_sites = <<>> /\ c.totals.chatty_tags = <<>>

\* the Report folded from the merged results of two files of different sites,
\* before the ranking pass
C14_Witness ==
    /\ pc = "Collecting"
    /\ Collected
    /\ Cardinality(DOMAIN combined_result[1].sites) = 2
    /\ \E s \in DOMAIN combined_result[1].sites : combined_result[1].sites[s].questions = 2

\* the Reports of the collecting phase
CollectingReports ==
    UnrankedReports \cup (IF pc = "Collecting" THEN Range(combined_result) ELSE {})

\* C15: the empty Report is a two-sided identity of the merge: for every Report
\* x of the collecting phase, Identity + x and x + Identity have the sites, tags,
\* questions and words of x.
C15_IdentityOfMerge ==
    \A x \in CollectingReports :
       /\ Counts(Add(Identity, x)) = Counts(x)
       /\ Counts(Add(x, Identity)) = Counts(x)

\* a reduction holds the identity next to a partial result merged from two
\* records with tags: the closure can be handed the two in either order
C15_Witness ==
    \E f \in Files :
       /\ BagIn(Identity, pool[f])
       /\ \E x \in BagToSet(pool[f]) :
             /\ << Identity, x >> \in MergePairs
             /\ << x, Identity >> \in MergePairs
             /\ \E s \in DOMAIN x.sites :
                   x.sites[s].questions = 2 /\ Cardinality(DOMAIN x.sites[s].tags) = 2

----------------------------------------------------------------------------
(* The phases of the run *)

\* the phase changes of a run; "Aborted" is process::exit(1), from which
\* nothing goes on
PhaseChanges ==
    { << "Idle", "Collecting" >>, << "Collecting", "Ranking" >>, << "Ranking", "Done" >>,
      << "Idle", "Aborted" >>, << "Collecting", "Aborted" >> }

\* C16: every step keeps the phase or moves it forward along Idle, Collecting,
\* Ranking, Done (or aborts the run from Idle or Collecting); a step taken once
\* the ranking pass has begun merges nothing: the reductions, the per-file
\* results, the fold position and the key sets, questions and words of the
\* Report stay as they are; no step changes anything once Done is reached.
C16_PhaseOrder ==
    [][ /\ (pc' = pc \/ << pc, pc' >> \in PhaseChanges)
        /\ RankingBegun =>
              /\ pool' = pool
              /\ results_per_file' = results_per_file
              /\ folded' = folded
              /\ Counts(combined_result'[1]) = Counts(combined_result[1])
        /\ pc = "Done" => vars' = vars ]_vars

\* a run went through the four phases: the Report of three records of two
\* files is ranked and printed
C16_Witness ==
    /\ pc = "Done"
    /\ output = combined_result
    /\ Len(paths) = 2
    /\ Cardinality(OkPositions) = 3
    /\ Len(output[1].totals.chatty_sites) = 2

----------------------------------------------------------------------------
(* Who writes what *)

\* the site questions of the partial results a bag holds
RECURSIVE BagQuestions(_)
BagQuestions(B) ==
    IF BagToSet(B) = {} THEN 0
    ELSE LET x == CHOOSE y \in BagToSet(B) : TRUE
         IN  SiteQuestions(x, DOMAIN x.sites) + BagQuestions(B (-) SetToBag({x}))

\* the operands the calls of the reduce closure under way on file f hold
RECURSIVE OperandsOf(_, _)
OperandsOf(M, f) ==
    IF BagToSet(M) = {} THEN EmptyBag
    ELSE LET m == CHOOSE y \in BagToSet(M) : TRUE
             rest == OperandsOf(M (-) SetToBag({m}), f)
         IN  IF m[1] = f THEN (rest (+) SetToBag({m[2]})) (+) SetToBag({m[3]}) ELSE rest

\* C17: no two workers hold write access to the same thing.  (a) At most one
\* task of the ranking pass holds the &mut SiteData of a site.  (b) While a
\* task of the ranking pass holds a site, the main thread is inside
\* process_sites: it has not written the totals and writes nothing.  (c) While
\* the main thread folds the per-file results into its accumulator no worker
\* is alive: every file is done, no reduction holds a partial result and no
\* call of the closure is under way.  (d) The contribution of a record is
\* private: each well-formed record read of a file is counted in exactly one of
\* the partial results that the file's reduction or a call under way holds.
\* (e) A task of the ranking pass writes its own site only: a site whose task
\* has not returned still has the chatty_tags it had before the pass.
C17_NoSharedWriter ==
    /\ \A s \in SiteNames : CopiesIn(s, site_writers) <= 1
    /\ site_writers # EmptyBag => pc = "Ranking" /\ rstep = "sites"
    /\ combined_result # <<>> =>
          /\ merging = EmptyBag
          /\ \A f \in Files : fstate[f] = "done" /\ pool[f] = EmptyBag
    /\ \A f \in Files :
          fstate[f] \in {"open", "eof"} =>
             BagQuestions(pool[f] (+) OperandsOf(merging, f))
                = Cardinality({ p \in OkPositions : p[1] = f })
    /\ \A d \in UnrankedSiteData : d.chatty_tags = Placeholders

\* the tasks of two sites hold their entries at the same time, each site
\* built from a record of its file
C17_Witness ==
    /\ BagCardinality(site_writers) = 2
    /\ \A f \in Files : SiteQuestions(results_per_file[f], DOMAIN results_per_file[f].sites) >= 1

----------------------------------------------------------------------------
(* Termination *)

Terminated == pc \in {"Done", "Aborted"}

ReadFailsForEver == \E f \in Files : fstate[f] \in {"readerr", "skipped"}

\* C18 as stated: under fair scheduling every run ends, either Done with the
\* finished Report or aborted by a fatal I/O error.  It fails on a run that
\* lists an entry whose every read fails: the worker of that entry gets Err
\* from lines(), logs it, skips it and asks lines() again, for ever.
C18_Original == <>Terminated

\* every other run ends: a fair run ends unless the reads of an entry fail
\* for ever
TerminatesUnlessReadFailsForEver == <>(Terminated \/ ReadFailsForEver)

----------------------------------------------------------------------------
(* What the ranking pass leaves alone *)

\* a Report with its three ranking fields put back to what they are before
\* the ranking pass
WithoutRanking(r) ==
    [padron |-> r.padron,
     sites |-> [s \in DOMAIN r.sites |-> [r.sites[s] EXCEPT !.chatty_tags = Placeholders]],
     tags |-> r.tags,
     totals |-> [chatty_sites |-> <<>>, chatty_tags |-> <<>>]]

\* the Report process_files returned
ReportBeforeRanking ==
    FoldResults(Identity, [f \in 1..Len(paths) |-> results_per_file[f]])

\* C19: the ranking pass writes totals.chatty_sites, totals.chatty_tags and
\* the chatty_tags of the sites and nothing else: in every state of the pass,
\* whatever tasks have run and in whatever order, and in the printed Report,
\* the padron, the site keys, the global tag keys, every site's tag keys and
\* every questions and words value are those of the Report process_files
\* returned.
C19_RankingFrame ==
    RankingBegun =>
       /\ WithoutRanking(combined_result[1]) = ReportBeforeRanking
       /\ \A r \in Range(output) : WithoutRanking(r) = ReportBeforeRanking

\* the pass has run on a Report of two sites: the three kinds of list are
\* written, each site ranks its tags
C19_Witness ==
    /\ pc = "Done"
    /\ LET r == output[1]
       IN  /\ Len(r.totals.chatty_sites) = 2
           /\ Len(r.totals.chatty_tags) = 2
           /\ \A s \in DOMAIN r.sites : Len(r.sites[s].chatty_tags) >= 1
           /\ \E s \in DOMAIN r.sites : Len(r.sites[s].chatty_tags) = 2

----------------------------------------------------------------------------
(* Site entries *)

\* the sites of which a well-formed record was read in the files F
SitesRead(F) == { paths[p[1]] : p \in { q \in OkPositions : q[1] \in F } }

\* C20: a site has an entry exactly when a well-formed record of it was read:
\* the sites of a per-file result are the file's site if the file had a
\* well-formed record and none otherwise (an empty file and a file of
\* malformed or unreadable lines only give no entry), the sites of the folded
\* Report are the sites of the files with a well-formed record; and every
\* SiteData of every Report of every reachable state has questions >= 1, so
\* SiteData_get_coef never divides by zero.
C20_SiteIffRecord ==
    /\ \A f \in DOMAIN results_per_file :
          DOMAIN results_per_file[f].sites = SitesRead({f})
    /\ Collected => DOMAIN combined_result[1].sites = SitesRead(Files)
    /\ \A r \in AllReports : \A s \in DOMAIN r.sites : r.sites[s].questions >= 1

\* the printed Report of two files: the file of site 1 had only a malformed
\* line and site 1 has no entry, the file of site 2 had two records
C20_Witness ==
    /\ pc = "Done"
    /\ paths = << 1, 2 >>
    /\ Len(lines[1]) = 1
    /\ lines[1][1].kind = "malformed"
    /\ DOMAIN output[1].sites = {2}
    /\ output[1].sites[2].questions = 2

----------------------------------------------------------------------------
(* Tags and their sites *)

\* C21: in every Report of every reachable state (a line's contribution, every
\* result of a merge that a reduction or the fold holds, the per-file results,
\* the folded and the ranked Report), for every site and every tag of the
\* site's tag map, the tag's questions is at most the site's questions and the
\* tag's words at most the site's words.
C21_TagWithinSite ==
    \A r \in AllReports : \A s \in DOMAIN r.sites :
       \A t \in DOMAIN r.sites[s].tags :
          /\ r.sites[s].tags[t].questions <= r.sites[s].questions
          /\ r.sites[s].tags[t].words <= r.sites[s].words

\* a site merged from three records, one of them naming a tag twice: the tag
\* has fewer questions and fewer words than the site
C21_Witness ==
    /\ Collected
    /\ RepeatedTagPositions # {}
    /\ \E s \in DOMAIN combined_result[1].sites :
          LET d == combined_result[1].sites[s]
          IN  /\ d.questions = 3
              /\ \E t \in DOMAIN d.tags :
                    /\ d.tags[t].questions = 2
                    /\ d.tags[t].words > 0
                    /\ d.tags[t].words < d.words

\* the tags of the sites of a Report
SiteTagKeys(r) == UNION { DOMAIN r.sites[s].tags : s \in DOMAIN r.sites }

\* C22: in every Report of every reachable state (the identity, a line's
\* contribution, every result of a merge, the per-file results, the folded and
\* the ranked Report) the keys of the global tag map are the union of the keys
\* of the sites' tag maps.
C22_GlobalTagsAreSiteTags ==
    \A r \in AllReports : DOMAIN r.tags = SiteTagKeys(r)

\* the printed Report of two sites with different tags: each site's tags are
\* only a part of the global tags
C22_Witness ==
    /\ pc = "Done"
    /\ LET r == output[1]
       IN  /\ DOMAIN r.sites = {1, 2}
           /\ DOMAIN r.sites[1].tags = {1}
           /\ DOMAIN r.sites[2].tags = {2}
           /\ DOMAIN r.tags = {1, 2}

====
